---- MODULE Spec2Model ----
(***************************************************************************)
(* Model of the fullcust NaviCust solver (src/backend/internal.ts) and of  *)
(* the 2D array helpers it uses (src/js/backends/js/array2d.ts).           *)
(*                                                                         *)
(* An Array2D is a record [nrows, ncols, cells]; cells is the flat         *)
(* row-major buffer, so the element the code reads as arr[y * ncols + x]   *)
(* is cells[y * ncols + x + 1] here (sequences are 1-indexed).             *)
(***************************************************************************)
EXTENDS Integers, Sequences, FiniteSets, TLC

\* ------------------------------------------------------------------------
\* Cell sentinels
\* ------------------------------------------------------------------------
FORBIDDEN == 0 - 2

EMPTY == 0 - 1

\* The tri-state of a constraint field (boolean | null in the code): true,
\* false or null (unspecified).
YES == "true"

NO == "false"

NULL == "null"

\* ------------------------------------------------------------------------
\* array2d
\* ------------------------------------------------------------------------
At(a, y, x) == a.cells[y * a.ncols + x + 1]

\* Array.prototype.slice(start, end): a negative index counts from the end,
\* and both are clamped to the array.
slice(arr, start, end) ==
    LET len == Len(arr)
        clamp(k) == IF k < 0
                    THEN (IF len + k < 0 THEN 0 ELSE len + k)
                    ELSE (IF k > len THEN len ELSE k)
        from == clamp(start)
        to == clamp(end)
    IN  [j \in 1..(IF to > from THEN to - from ELSE 0) |-> arr[from + j]]

row(a, i) == slice(a.cells, i * a.ncols, (i + 1) * a.ncols)

col(a, j) == [i \in 1..a.nrows |-> At(a, i - 1, j)]

subarray(a, top, left, nrows, ncols) ==
    [nrows |-> nrows, ncols |-> ncols,
     cells |-> [k \in 1..(nrows * ncols) |->
                  At(a, top + ((k - 1) \div ncols), left + ((k - 1) % ncols))]]

transpose(a) ==
    [nrows |-> a.ncols, ncols |-> a.nrows,
     cells |-> [k \in 1..(a.nrows * a.ncols) |->
                  At(a, (k - 1) % a.nrows, (k - 1) \div a.nrows)]]

\* flipRowsInplace, as the array it leaves behind: the swaps of one row
\* exchange columns j and ncols - j - 1 for j below floor(ncols / 2).
flipRows(a) ==
    [a EXCEPT !.cells = [k \in 1..(a.nrows * a.ncols) |->
        At(a, (k - 1) \div a.ncols, a.ncols - ((k - 1) % a.ncols) - 1)]]

\* Mutant of rot90: the rows are flipped before the transposition, which
\* turns the array the other way.
rot90FlipFirst(a) == transpose(flipRows(a))

rot90(a) == flipRows(transpose(a))

equal(l, r) ==
    /\ l.nrows = r.nrows
    /\ l.ncols = r.ncols
    /\ \A i \in 1..Len(l.cells) : l.cells[i] = r.cells[i]

\* ------------------------------------------------------------------------
\* small array helpers of internal.ts
\* ------------------------------------------------------------------------
arrayCountNumber(arr, p) == Cardinality({i \in 1..Len(arr) : arr[i] = p})

arrayCountTrue(arr) == Cardinality({i \in 1..Len(arr) : arr[i]})

arrayAny(arr) == \E i \in 1..Len(arr) : arr[i]

arrayBooleanToNumber(arr) == [i \in 1..Len(arr) |-> IF arr[i] THEN 1 ELSE 0]

\* x & 0xff of every element; the string carries the bytes and nothing else.
to8BitString(arr) == [i \in 1..Len(arr) |-> arr[i] % 256]

\* trim: the sub-array between the first and the last column, and the first
\* and the last row, that hold a true cell.
trim(a) ==
    LET colsAny == {j \in 0..(a.ncols - 1) : arrayAny(col(a, j))}
        rowsAny == {i \in 0..(a.nrows - 1) : arrayAny(row(a, i))}
        Min(S, dflt) == IF S = {} THEN dflt ELSE CHOOSE m \in S : \A n \in S : m <= n
        Max(S, dflt) == IF S = {} THEN dflt ELSE CHOOSE m \in S : \A n \in S : m >= n
        left == Min(colsAny, a.ncols)
        top == Min(rowsAny, a.nrows)
        right == Max(colsAny, 0 - 1) + 1
        bottom == Max(rowsAny, 0 - 1) + 1
    IN  subarray(a, top, left, bottom - top, right - left)

\* ------------------------------------------------------------------------
\* Grid
\* ------------------------------------------------------------------------
\* new Grid(settings): every cell EMPTY, the four corners FORBIDDEN when hasOob.
NewGrid(settings) ==
    LET w == settings.width
        h == settings.height
        corners == {0 * w + 0, 0 * w + (w - 1), (h - 1) * w + (w - 1), (h - 1) * w + 0}
    IN  [hasOob |-> settings.hasOob,
         commandLineRow |-> settings.commandLineRow,
         nrows |-> h,
         ncols |-> w,
         cells |-> [i \in 1..(h * w) |->
                      IF settings.hasOob /\ (i - 1) \in corners THEN FORBIDDEN ELSE EMPTY]]

\* grid.clone(): a grid with the same settings and a copy of the cells.
clone(grid) == grid

\* The offsets Grid.place derives from the position.
srcTopOf(pos) == IF pos.y < 0 THEN 0 - pos.y ELSE 0

dstTopOf(pos) == IF pos.y < 0 THEN 0 ELSE pos.y

srcLeftOf(pos) == IF pos.x < 0 THEN 0 - pos.x ELSE 0

dstLeftOf(pos) == IF pos.x < 0 THEN 0 ELSE pos.x

\* Mutant of placeWindowOk: the first loop of Grid.place is missing.
placeWindowUnchecked(mask, pos) == TRUE

\* First loop of Grid.place: no true cell of the mask outside the window
\* [srcLeft, mask.ncols - dstLeft) x [srcTop, mask.nrows - dstTop).
placeWindowOk(mask, pos) ==
    \A y \in 0..(mask.nrows - 1), x \in 0..(mask.ncols - 1) :
        \/ /\ x >= srcLeftOf(pos)
           /\ y >= srcTopOf(pos)
           /\ x < mask.ncols - dstLeftOf(pos)
           /\ y < mask.nrows - dstTopOf(pos)
        \/ ~At(mask, y, x)

\* Mutant of placeLoop: the test for a cell that is not EMPTY is missing, so
\* a stamp overwrites what it lands on.
RECURSIVE placeLoopOverwriting(_, _, _, _, _)
placeLoopOverwriting(grid, mask, pos, reqIdx, k) ==
    LET nr == mask.nrows - srcTopOf(pos)
        nc == mask.ncols - srcLeftOf(pos)
    IN  IF nr <= 0 \/ nc <= 0 \/ k >= nr * nc
        THEN [ok |-> TRUE, grid |-> grid]
        ELSE LET srcX == (k % nc) + srcLeftOf(pos)
                 srcY == (k \div nc) + srcTopOf(pos)
                 dstX == (k % nc) + dstLeftOf(pos)
                 dstY == (k \div nc) + dstTopOf(pos)
             IN  IF ~At(mask, srcY, srcX)
                 THEN placeLoopOverwriting(grid, mask, pos, reqIdx, k + 1)
                 ELSE IF dstX >= grid.ncols \/ dstY >= grid.nrows
                 THEN [ok |-> FALSE, grid |-> grid]
                 ELSE placeLoopOverwriting(
                          [grid EXCEPT !.cells[dstY * grid.ncols + dstX + 1] = reqIdx],
                          mask, pos, reqIdx, k + 1)

\* Mutant of placeLoop: only a cell that a requirement owns stops the
\* stamp, so a FORBIDDEN cell is written like an EMPTY one.
RECURSIVE placeLoopOverCorners(_, _, _, _, _)
placeLoopOverCorners(grid, mask, pos, reqIdx, k) ==
    LET nr == mask.nrows - srcTopOf(pos)
        nc == mask.ncols - srcLeftOf(pos)
    IN  IF nr <= 0 \/ nc <= 0 \/ k >= nr * nc
        THEN [ok |-> TRUE, grid |-> grid]
        ELSE LET srcX == (k % nc) + srcLeftOf(pos)
                 srcY == (k \div nc) + srcTopOf(pos)
                 dstX == (k % nc) + dstLeftOf(pos)
                 dstY == (k \div nc) + dstTopOf(pos)
                 gridCellsIdx == dstY * grid.ncols + dstX
             IN  IF ~At(mask, srcY, srcX)
                 THEN placeLoopOverCorners(grid, mask, pos, reqIdx, k + 1)
                 ELSE IF dstX >= grid.ncols \/ dstY >= grid.nrows
                 THEN [ok |-> FALSE, grid |-> grid]
                 ELSE IF grid.cells[gridCellsIdx + 1] >= 0
                 THEN [ok |-> FALSE, grid |-> grid]
                 ELSE placeLoopOverCorners(
                          [grid EXCEPT !.cells[gridCellsIdx + 1] = reqIdx],
                          mask, pos, reqIdx, k + 1)

\* Second loop of Grid.place from its k-th iteration on (row-major over
\* (mask.nrows - srcTop) x (mask.ncols - srcLeft)): it writes as it goes and
\* returns false at the first true cell that lands outside the grid or on a
\* cell that is not EMPTY, leaving the cells written so far.
RECURSIVE placeLoop(_, _, _, _, _)
placeLoop(grid, mask, pos, reqIdx, k) ==
    LET nr == mask.nrows - srcTopOf(pos)
        nc == mask.ncols - srcLeftOf(pos)
    IN  IF nr <= 0 \/ nc <= 0 \/ k >= nr * nc
        THEN [ok |-> TRUE, grid |-> grid]
        ELSE LET y == k \div nc
                 x == k % nc
                 srcX == x + srcLeftOf(pos)
                 srcY == y + srcTopOf(pos)
                 dstX == x + dstLeftOf(pos)
                 dstY == y + dstTopOf(pos)
                 gridCellsIdx == dstY * grid.ncols + dstX
             IN  IF ~At(mask, srcY, srcX)
                 THEN placeLoop(grid, mask, pos, reqIdx, k + 1)
                 ELSE IF dstX >= grid.ncols \/ dstY >= grid.nrows
                 THEN [ok |-> FALSE, grid |-> grid]
                 ELSE IF grid.cells[gridCellsIdx + 1] # EMPTY
                 THEN [ok |-> FALSE, grid |-> grid]
                 ELSE placeLoop([grid EXCEPT !.cells[gridCellsIdx + 1] = reqIdx],
                                mask, pos, reqIdx, k + 1)

\* grid.place(mask, pos, reqIdx): the value returned (ok) and the grid the
\* call leaves behind.
place(grid, mask, pos, reqIdx) ==
    IF ~placeWindowOk(mask, pos)
    THEN [ok |-> FALSE, grid |-> grid]
    ELSE placeLoop(grid, mask, pos, reqIdx, 0)

\* ------------------------------------------------------------------------
\* Admissibility
\* ------------------------------------------------------------------------
\* Parts and requirements are 0-indexed in the code: parts[i] is ps[i + 1].
Nth(seq, i) == seq[i + 1]

\* requirementsAreAdmissible: the two cheap feasibility checks of solve.
requirementsAreAdmissible(ps, reqs, gridSettings) ==
    LET commandLineParts ==
            Cardinality({i \in 1..Len(reqs) : reqs[i].constraint.onCommandLine = YES})
        squares(req) ==
            IF req.constraint.compressed = NO
            THEN arrayCountTrue(Nth(ps, req.partIndex).uncompressedMask.cells)
            ELSE arrayCountTrue(Nth(ps, req.partIndex).compressedMask.cells)
        Sum[i \in 0..Len(reqs)] == IF i = 0 THEN 0 ELSE Sum[i - 1] + squares(reqs[i])
        occupiedSquares == Sum[Len(reqs)]
        availableSquares ==
            gridSettings.width * gridSettings.height - (IF gridSettings.hasOob THEN 4 ELSE 0)
    IN  /\ ~(commandLineParts > gridSettings.width)
        /\ ~(occupiedSquares > availableSquares)

\* The per-requirement details solutionIsAdmissible collects in its scan of
\* the grid. outOfBounds tests x = 0, x = ncols - 1 (twice) and
\* y = nrows - 1, as the code does.
placementDetail(ps, reqs, grid, i) ==
    LET own == {c \in (0..(grid.nrows - 1)) \X (0..(grid.ncols - 1)) :
                    At(grid, c[1], c[2]) = i}
        color(r) == Nth(ps, Nth(reqs, r).partIndex).color
        neighbours(c) ==
            {d \in {<<c[1], c[2] - 1>>, <<c[1], c[2] + 1>>,
                    <<c[1] - 1, c[2]>>, <<c[1] + 1, c[2]>>} :
                /\ d[2] >= 0
                /\ d[2] < grid.ncols
                /\ d[1] >= 0
                /\ d[1] < grid.nrows}
    IN  [outOfBounds |->
            \E c \in own :
                /\ grid.hasOob
                /\ \/ c[2] = 0
                   \/ c[2] = grid.ncols - 1
                   \/ c[1] = grid.nrows - 1
                   \/ c[2] = grid.ncols - 1,
         onCommandLine |-> \E c \in own : c[1] = grid.commandLineRow,
         touchingSameColor |->
            \E c \in own : \E d \in neighbours(c) :
                /\ At(grid, d[1], d[2]) >= 0
                /\ At(grid, d[1], d[2]) # i
                /\ color(At(grid, d[1], d[2])) = color(i)]

\* solutionIsAdmissible: every requirement with a specified bugged
\* constraint has that value of placementIsBugged.
solutionIsAdmissible(ps, reqs, grid) ==
    \A i \in 0..(Len(reqs) - 1) :
        LET detail == placementDetail(ps, reqs, grid, i)
            part == Nth(ps, Nth(reqs, i).partIndex)
            placementIsBugged ==
                \/ detail.outOfBounds
                \/ part.isSolid = ~detail.onCommandLine
                \/ detail.touchingSameColor
            bugged == Nth(reqs, i).constraint.bugged
        IN  ~(bugged # NULL /\ (bugged = YES) # placementIsBugged)

\* Mutant of notAllOob: the mandatory check is missing.
notAllOobUnchecked(grid, reqIdx) == TRUE

\* The mandatory check of placementIsAdmissible: with hasOob some cell of
\* the requirement lies strictly inside the outer ring.
notAllOob(grid, reqIdx) ==
    grid.hasOob =>
        \E y \in 1..(grid.nrows - 2), x \in 1..(grid.ncols - 2) : At(grid, y, x) = reqIdx

\* Mutant of buggedLowerBoundOk: outOfBounds looks at the sides the scan of
\* solutionIsAdmissible looks at (no first row).
buggedLowerBoundNoFirstRow(grid, isSolid, reqIdx, bugged) ==
    LET outOfBounds ==
            /\ grid.hasOob
            /\ \/ arrayCountNumber(col(grid, 0), reqIdx) > 0
               \/ arrayCountNumber(row(grid, grid.nrows - 1), reqIdx) > 0
               \/ arrayCountNumber(col(grid, grid.ncols - 1), reqIdx) > 0
        placedOnCommandLine ==
            arrayCountNumber(row(grid, grid.commandLineRow), reqIdx) > 0
        placementIsBugged == outOfBounds \/ (isSolid = ~placedOnCommandLine)
    IN  ~(bugged = NO /\ placementIsBugged)

\* The bugged lower bound of placementIsAdmissible.
buggedLowerBoundOk(grid, isSolid, reqIdx, bugged) ==
    LET outOfBounds ==
            /\ grid.hasOob
            /\ \/ arrayCountNumber(row(grid, 0), reqIdx) > 0
               \/ arrayCountNumber(col(grid, 0), reqIdx) > 0
               \/ arrayCountNumber(row(grid, grid.nrows - 1), reqIdx) > 0
               \/ arrayCountNumber(col(grid, grid.ncols - 1), reqIdx) > 0
        placedOnCommandLine ==
            arrayCountNumber(row(grid, grid.commandLineRow), reqIdx) > 0
        placementIsBugged == outOfBounds \/ (isSolid = ~placedOnCommandLine)
    IN  ~(bugged = NO /\ placementIsBugged)

\* Mutant of placementIsAdmissible: the command line test is missing.
placementIsAdmissibleOffRow(grid, isSolid, reqIdx, onCommandLine, bugged) ==
    /\ notAllOob(grid, reqIdx)
    /\ buggedLowerBoundOk(grid, isSolid, reqIdx, bugged)

\* placementIsAdmissible: the local check made after stamping one requirement.
placementIsAdmissible(grid, isSolid, reqIdx, onCommandLine, bugged) ==
    LET placedOnCommandLine ==
            arrayCountNumber(row(grid, grid.commandLineRow), reqIdx) > 0
    IN  /\ notAllOob(grid, reqIdx)
        /\ ~(onCommandLine = YES /\ ~placedOnCommandLine)
        /\ buggedLowerBoundOk(grid, isSolid, reqIdx, bugged)

\* ------------------------------------------------------------------------
\* Candidates
\* ------------------------------------------------------------------------
\* placementPositionsForMask: the positions, in row-major order of (y, x)
\* over [-nrows + 1, nrows - 1] x [-ncols + 1, ncols - 1], at which the mask
\* stamps on a fresh grid and passes the local check as requirement 0.
placementPositionsForMask(mask, isSolid, gridSettings, onCommandLine, bugged) ==
    LET ny == 2 * mask.nrows - 1
        nx == 2 * mask.ncols - 1
        all == [k \in 1..(ny * nx) |->
                  [x |-> ((k - 1) % nx) - mask.ncols + 1,
                   y |-> ((k - 1) \div nx) - mask.nrows + 1]]
        Keep(pos) ==
            LET r == place(NewGrid(gridSettings), mask, pos, 0)
            IN  /\ r.ok
                /\ placementIsAdmissible(r.grid, isSolid, 0, onCommandLine, bugged)
    IN  SelectSeq(all, Keep)

\* The string under which placementLocationsAndMasksForMask remembers a mask.
knownMaskOf(mask) == to8BitString(arrayBooleanToNumber(trim(mask).cells))

\* Mutant of rotationLocations: no rotation is skipped.
RECURSIVE rotationLocationsAll(_, _, _, _, _, _, _)
rotationLocationsAll(mask, knownMasks, i, isSolid, gridSettings, onCommandLine, bugged) ==
    IF i >= 4
    THEN <<>>
    ELSE LET mask2 == rot90(mask)
             positions ==
                 placementPositionsForMask(mask2, isSolid, gridSettings, onCommandLine, bugged)
         IN  [k \in 1..Len(positions) |->
                 [loc |-> [position |-> positions[k], rotation |-> i], mask |-> mask2]]
             \o rotationLocationsAll(mask2, knownMasks, i + 1,
                                     isSolid, gridSettings, onCommandLine, bugged)

\* The loop over rotations i..3 of placementLocationsAndMasksForMask; mask
\* is the mask before the i-th rot90 and knownMasks the strings seen so far.
RECURSIVE rotationLocations(_, _, _, _, _, _, _)
rotationLocations(mask, knownMasks, i, isSolid, gridSettings, onCommandLine, bugged) ==
    IF i >= 4
    THEN <<>>
    ELSE LET mask2 == rot90(mask)
             knownMask == knownMaskOf(mask2)
             positions ==
                 placementPositionsForMask(mask2, isSolid, gridSettings, onCommandLine, bugged)
         IN  IF knownMask \in knownMasks
             THEN rotationLocations(mask2, knownMasks, i + 1,
                                    isSolid, gridSettings, onCommandLine, bugged)
             ELSE [k \in 1..Len(positions) |->
                     [loc |-> [position |-> positions[k], rotation |-> i], mask |-> mask2]]
                  \o rotationLocations(mask2, knownMasks \cup {knownMask}, i + 1,
                                       isSolid, gridSettings, onCommandLine, bugged)

placementLocationsAndMasksForMask(mask, isSolid, gridSettings, onCommandLine, bugged, spinnable) ==
    LET positions ==
            placementPositionsForMask(mask, isSolid, gridSettings, onCommandLine, bugged)
    IN  [k \in 1..Len(positions) |->
            [loc |-> [position |-> positions[k], rotation |-> 0], mask |-> mask]]
        \o (IF spinnable
            THEN rotationLocations(mask, {knownMaskOf(mask)}, 1,
                                   isSolid, gridSettings, onCommandLine, bugged)
            ELSE <<>>)

\* The candidates built from one call of placementLocationsAndMasksForMask,
\* all tagged with the same compressed flag.
tagged(locations, compressed) ==
    [k \in 1..Len(locations) |->
        [placement |-> [loc |-> locations[k].loc, compressed |-> compressed],
         mask |-> locations[k].mask]]

candidatesForPart(part, gridSettings, constraint, spinnable) ==
    LET locs(mask) ==
            placementLocationsAndMasksForMask(mask, part.isSolid, gridSettings,
                constraint.onCommandLine, constraint.bugged, spinnable)
    IN  IF constraint.compressed = YES \/ equal(part.compressedMask, part.uncompressedMask)
        THEN tagged(locs(part.compressedMask), TRUE)
        ELSE IF constraint.compressed = NO
        THEN tagged(locs(part.uncompressedMask), FALSE)
        ELSE tagged(locs(part.compressedMask), TRUE)
             \o tagged(locs(part.compressedMask), FALSE)

\* ------------------------------------------------------------------------
\* Fingerprint, candidate order, placeAll
\* ------------------------------------------------------------------------
\* partsArr2DForGrid: every owned cell replaced by its requirement's
\* partIndex, every sentinel by -1.
partsArr2DForGrid(grid, reqs) ==
    [nrows |-> grid.nrows, ncols |-> grid.ncols,
     cells |-> [i \in 1..Len(grid.cells) |->
                  IF grid.cells[i] < 0 THEN 0 - 1 ELSE Nth(reqs, grid.cells[i]).partIndex]]

\* Mutant of gridByPartsOf: the string is built from the requirement
\* indices, without the projection on the parts.
gridByReqsOf(grid, reqs) == to8BitString(grid.cells)

\* The string solve keeps in visited for a grid.
gridByPartsOf(grid, reqs) == to8BitString(partsArr2DForGrid(grid, reqs).cells)

\* Mutant of candidateBefore: the comparator looks at the index alone.
candidateBeforeByIndex(a, b) == a.reqIdx < b.reqIdx

\* The comparator of candidates.sort in solve: fewer candidates first, then
\* the smaller requirement index.
candidateBefore(a, b) ==
    \/ Len(a.cands) < Len(b.cands)
    \/ Len(a.cands) = Len(b.cands) /\ a.reqIdx < b.reqIdx

\* The pair [i, candidatesForPart(...)] solve builds for requirement i.
candidatePair(ps, reqs, gridSettings, spinnableColors, i) ==
    LET part == Nth(ps, Nth(reqs, i).partIndex)
        spinnable ==
            IF part.color + 1 \in DOMAIN spinnableColors
            THEN Nth(spinnableColors, part.color)
            ELSE FALSE
    IN  [reqIdx |-> i,
         cands |-> candidatesForPart(part, gridSettings, Nth(reqs, i).constraint, spinnable)]

\* candidates of solve before the sort: the pairs of requirements 0..n-1.
RECURSIVE unsortedCandidates(_, _, _, _, _)
unsortedCandidates(ps, reqs, gridSettings, spinnableColors, n) ==
    IF n = 0
    THEN <<>>
    ELSE Append(unsortedCandidates(ps, reqs, gridSettings, spinnableColors, n - 1),
                candidatePair(ps, reqs, gridSettings, spinnableColors, n - 1))

\* candidates.sort of solve.
sorted(unsorted) ==
    [k \in 1..Len(unsorted) |->
        unsorted[CHOOSE j \in 1..Len(unsorted) :
            Cardinality({m \in 1..Len(unsorted) :
                candidateBefore(unsorted[m], unsorted[j])}) = k - 1]]

\* candidates of solve after the sort: one pair [reqIdx, cands] per requirement.
sortedCandidates(ps, reqs, gridSettings, spinnableColors) ==
    sorted(unsortedCandidates(ps, reqs, gridSettings, spinnableColors, Len(reqs)))

\* Mutant of solutionOf: raw.sort is missing.
solutionOfUnsorted(raw) == [k \in 1..Len(raw) |-> raw[k].placement]

\* raw.sort by reqIdx followed by the projection on the placements.
solutionOf(raw) ==
    [k \in 1..Len(raw) |->
        raw[CHOOSE j \in 1..Len(raw) :
            Cardinality({m \in 1..Len(raw) : raw[m].reqIdx < raw[j].reqIdx}) = k - 1].placement]

\* mask rotated by rot90 the given number of times.
RECURSIVE rotated(_, _)
rotated(mask, times) == IF times <= 0 THEN mask ELSE rotated(rot90(mask), times - 1)

\* The mask placeAll selects for a placement.
placeAllMask(part, placement) ==
    IF placement.compressed THEN part.compressedMask ELSE part.compressedMask

\* The loop of placeAll over placements i.. on the grid built so far.
RECURSIVE placeAllLoop(_, _, _, _, _)
placeAllLoop(ps, reqs, placements, grid, i) ==
    IF i >= Len(placements)
    THEN [ok |-> TRUE, grid |-> grid]
    ELSE LET placement == Nth(placements, i)
             part == Nth(ps, Nth(reqs, i).partIndex)
             mask == rotated(placeAllMask(part, placement), placement.loc.rotation)
             r == place(grid, mask, placement.loc.position, i)
         IN  IF ~r.ok
             THEN [ok |-> FALSE, grid |-> r.grid]
             ELSE placeAllLoop(ps, reqs, placements, r.grid, i + 1)

\* undefined in the cell map placeAll returns, written as an integer that
\* is no requirement index.
UNDEFINED == 0 - 1

\* placeAll: valid is FALSE for the null result; otherwise cells is the
\* returned array.
placeAll(ps, reqs, placements, gridSettings) ==
    LET r == placeAllLoop(ps, reqs, placements, NewGrid(gridSettings), 0)
    IN  IF ~r.ok
        THEN [valid |-> FALSE, cells |-> <<>>]
        ELSE [valid |-> TRUE,
              cells |-> [i \in 1..Len(r.grid.cells) |->
                           IF r.grid.cells[i] < 0 THEN UNDEFINED ELSE r.grid.cells[i]]]

\* ------------------------------------------------------------------------
\* Inputs of the model
\* ------------------------------------------------------------------------
\* The longest requirement list explored.
MaxReqs == 2

Mask(nrows, ncols, cells) == [nrows |-> nrows, ncols |-> ncols, cells |-> cells]

MaskSingle == Mask(3, 3, <<FALSE, FALSE, FALSE, FALSE, TRUE, FALSE, FALSE, FALSE, FALSE>>)

MaskVertical == Mask(3, 3, <<FALSE, TRUE, FALSE, FALSE, TRUE, FALSE, FALSE, FALSE, FALSE>>)

MaskHorizontal == Mask(3, 3, <<FALSE, FALSE, FALSE, TRUE, TRUE, FALSE, FALSE, FALSE, FALSE>>)

MaskCorner == Mask(2, 3, <<FALSE, TRUE, FALSE, FALSE, TRUE, TRUE>>)

\* The part list: a solid part whose two masks differ, a plus part of the
\* same colour and a solid part of another colour, both with equal masks.
Parts ==
    << [isSolid |-> TRUE, color |-> 0,
        compressedMask |-> MaskSingle, uncompressedMask |-> MaskVertical],
       [isSolid |-> FALSE, color |-> 0,
        compressedMask |-> MaskHorizontal, uncompressedMask |-> MaskHorizontal],
       [isSolid |-> TRUE, color |-> 1,
        compressedMask |-> MaskCorner, uncompressedMask |-> MaskCorner] >>

Constraint(compressed, onCommandLine, bugged) ==
    [compressed |-> compressed, onCommandLine |-> onCommandLine, bugged |-> bugged]

Constraints ==
    { Constraint(NULL, NULL, NULL),
      Constraint(YES, NULL, NULL),
      Constraint(NO, NULL, NULL),
      Constraint(NULL, YES, NULL),
      Constraint(NULL, NO, NULL),
      Constraint(NULL, NULL, YES),
      Constraint(NULL, NULL, NO),
      Constraint(NO, NULL, NO),
      Constraint(NO, NO, YES),
      Constraint(YES, YES, NO) }

Requirements ==
    {[partIndex |-> p, constraint |-> c] : p \in 0..(Len(Parts) - 1), c \in Constraints}

RequirementLists == UNION {[1..n -> Requirements] : n \in 0..MaxReqs}

Settings(height, width, hasOob, commandLineRow) ==
    [height |-> height, width |-> width, hasOob |-> hasOob, commandLineRow |-> commandLineRow]

\* Grids with and without the out-of-bounds ring, one with the command line
\* row beyond the grid, one narrower than two parts, one with no free cell.
GridSettingsSet ==
    { Settings(4, 3, TRUE, 1),
      Settings(2, 3, FALSE, 0),
      Settings(2, 2, FALSE, 3),
      Settings(3, 1, FALSE, 1),
      Settings(2, 2, TRUE, 0) }

SpinnableColorsSet == { <<FALSE>>, <<TRUE, TRUE>> }

\* ------------------------------------------------------------------------
\* solve as a state machine
\* ------------------------------------------------------------------------
VARIABLES
    parts,            \* argument of solve and of placeAll
    requirements,     \* argument of solve and of placeAll
    gridSettings,     \* argument of solve
    spinnableColors,  \* argument of solve
    pc,               \* "start", "search" or "done"
    candidates,       \* candidates of solve, sorted
    stack,            \* the live helper calls: [grid, next candidate], outermost first
    visited,          \* the set visited
    emitted,          \* the solutions yielded so far, each with the grid it was built on
    last,             \* what the latest step did
    gridObj,          \* a Grid object that place is called on directly
    call,             \* the latest direct call of place or placeAll
    solver            \* an AsyncSolver, its worker and the messages between them

vars == <<parts, requirements, gridSettings, spinnableColors, pc, candidates, stack,
          visited, emitted, last, gridObj, call, solver>>

inputs == <<parts, requirements, gridSettings, spinnableColors>>

\* What solve does not touch.
direct == <<gridObj, call, solver>>

\* What the direct calls of place and placeAll do not touch.
search == <<spinnableColors, pc, candidates, stack, visited, emitted, last, solver>>

NoCall == [op |-> "none"]

\* No AsyncSolver was constructed.
NoSolver == [worker |-> "none"]

Init ==
    /\ parts = Parts
    /\ requirements \in RequirementLists
    /\ gridSettings \in GridSettingsSet
    /\ spinnableColors \in SpinnableColorsSet
    /\ pc = "start"
    /\ candidates = <<>>
    /\ stack = <<>>
    /\ visited = {}
    /\ emitted = <<>>
    /\ last = "none"
    /\ gridObj = NewGrid(gridSettings)
    /\ call = NoCall
    /\ solver = NoSolver

\* Mutant of preChecksPass: the test of commandLineRow is missing.
preChecksWithoutRow(ps, reqs, settings) == requirementsAreAdmissible(ps, reqs, settings)

\* The pre-checks of solve.
preChecksPass(ps, reqs, settings) ==
    /\ ~(settings.commandLineRow > settings.height)
    /\ requirementsAreAdmissible(ps, reqs, settings)

\* solve returns at once: a pre-check triggered.
Infeasible ==
    /\ pc = "start"
    /\ ~preChecksPass(parts, requirements, gridSettings)
    /\ pc' = "done"
    /\ last' = "infeasible"
    /\ UNCHANGED <<inputs, candidates, stack, visited, emitted, direct>>

\* solve computes and sorts the candidates and calls helper(new Grid, 0).
Start ==
    /\ pc = "start"
    /\ preChecksPass(parts, requirements, gridSettings)
    /\ candidates' = sortedCandidates(parts, requirements, gridSettings, spinnableColors)
    /\ stack' = <<[grid |-> NewGrid(gridSettings), next |-> 1]>>
    /\ pc' = "search"
    /\ last' = "start"
    /\ UNCHANGED <<inputs, visited, emitted, direct>>

\* The helper call on top of the stack and the candidate it is about to try.
depth == Len(stack)

top == stack[depth]

curReqIdx == candidates[depth].reqIdx

curCands == candidates[depth].cands

curCandidate == curCands[top.next]

curReq == Nth(requirements, curReqIdx)

curPart == Nth(parts, curReq.partIndex)

Trying ==
    /\ pc = "search"
    /\ depth >= 1
    /\ depth <= Len(candidates)
    /\ top.next <= Len(curCands)

\* Mutant of gridAfterStamp: grid2 is the grid itself, not a copy, so what
\* place wrote on grid2 is in the grid of the helper call.
gridSharedWithClone(grid, grid2) == grid2

\* The grid of a helper call after grid2 = grid.clone() has been stamped:
\* clone copies the cells into a new array (array2d.copy), so place on grid2
\* writes nothing into grid.
gridAfterStamp(grid, grid2) == grid

\* The stack once the helper call on top has stamped the clone grid2.
stamped(grid2) == [stack EXCEPT ![depth].grid = gridAfterStamp(top.grid, grid2)]

\* The loop of helper moves on to its next candidate.
Continue(kind, grid2) ==
    /\ stack' = [stamped(grid2) EXCEPT ![depth].next = @ + 1]
    /\ last' = kind
    /\ UNCHANGED <<inputs, pc, candidates, direct>>

\* The pairs {reqIdx, placement} pushed on the way out of the recursion,
\* deepest first.
rawOf(stk) ==
    [k \in 1..Len(stk) |->
        LET d == Len(stk) - k + 1
        IN  [reqIdx |-> candidates[d].reqIdx,
             placement |-> candidates[d].cands[stk[d].next].placement]]

\* The candidate each live helper call is exploring, by requirement index.
picksOf(stk) ==
    [i \in 0..(Len(stk) - 1) |->
        LET d == CHOOSE e \in 1..Len(stk) : candidates[e].reqIdx = i
        IN  candidates[d].cands[stk[d].next]]

\* Mutant of Try: helper does not look the fingerprint up in visited.
TryRevisiting ==
    /\ Trying
    /\ LET placed == place(clone(top.grid), curCandidate.mask,
                           curCandidate.placement.loc.position, curReqIdx)
           grid2 == placed.grid
           gridByParts == gridByPartsOf(grid2, requirements)
       IN  IF ~placed.ok
           THEN Continue("placeFails", grid2) /\ UNCHANGED <<visited, emitted>>
           ELSE IF ~placementIsAdmissible(grid2, curPart.isSolid, curReqIdx,
                        curReq.constraint.onCommandLine, curReq.constraint.bugged)
           THEN Continue("localReject", grid2) /\ UNCHANGED <<visited, emitted>>
           ELSE /\ visited' = visited \cup {gridByParts}
                /\ IF depth < Len(candidates)
                   THEN /\ stack' = Append(stamped(grid2), [grid |-> grid2, next |-> 1])
                        /\ last' = "descend"
                        /\ UNCHANGED <<inputs, pc, candidates, emitted, direct>>
                   ELSE IF ~solutionIsAdmissible(parts, requirements, grid2)
                   THEN Continue("globalReject", grid2) /\ UNCHANGED emitted
                   ELSE /\ emitted' = Append(emitted,
                                         [solution |-> solutionOf(rawOf(stack)),
                                          grid |-> grid2,
                                          picks |-> picksOf(stack)])
                        /\ Continue("emit", grid2)

\* One iteration of the loop of helper over its candidates: clone and
\* place, the local check, the visited set, then either the recursive call
\* or, at the last depth, solutionIsAdmissible and the yield of the
\* solution through every helper call and solve. last names the branch.
Try ==
    /\ Trying
    /\ LET placed == place(clone(top.grid), curCandidate.mask,
                           curCandidate.placement.loc.position, curReqIdx)
           grid2 == placed.grid
           gridByParts == gridByPartsOf(grid2, requirements)
       IN  IF ~placed.ok
           THEN Continue("placeFails", grid2) /\ UNCHANGED <<visited, emitted>>
           ELSE IF ~placementIsAdmissible(grid2, curPart.isSolid, curReqIdx,
                        curReq.constraint.onCommandLine, curReq.constraint.bugged)
           THEN Continue("localReject", grid2) /\ UNCHANGED <<visited, emitted>>
           ELSE IF gridByParts \in visited
           THEN Continue("seenBefore", grid2) /\ UNCHANGED <<visited, emitted>>
           ELSE /\ visited' = visited \cup {gridByParts}
                /\ IF depth < Len(candidates)
                   THEN /\ stack' = Append(stamped(grid2), [grid |-> grid2, next |-> 1])
                        /\ last' = "descend"
                        /\ UNCHANGED <<inputs, pc, candidates, emitted, direct>>
                   ELSE IF ~solutionIsAdmissible(parts, requirements, grid2)
                   THEN Continue("globalReject", grid2) /\ UNCHANGED emitted
                   ELSE /\ emitted' = Append(emitted,
                                         [solution |-> solutionOf(rawOf(stack)),
                                          grid |-> grid2,
                                          picks |-> picksOf(stack)])
                        /\ Continue("emit", grid2)

\* helper(grid, 0) with no requirement yields the empty solution once.
EmitEmpty ==
    /\ pc = "search"
    /\ depth = 1
    /\ Len(candidates) = 0
    /\ emitted' = Append(emitted, [solution |-> solutionOf(<<>>),
                                   grid |-> top.grid,
                                   picks |-> <<>>])
    /\ stack' = <<>>
    /\ pc' = "done"
    /\ last' = "emit"
    /\ UNCHANGED <<inputs, candidates, visited, direct>>

\* A helper call has tried all its candidates: it returns to its caller,
\* whose loop moves on, or solve ends.
Return ==
    /\ pc = "search"
    /\ depth >= 1
    /\ depth <= Len(candidates)
    /\ top.next > Len(curCands)
    /\ stack' = IF depth = 1
                THEN <<>>
                ELSE [SubSeq(stack, 1, depth - 1) EXCEPT ![depth - 1].next = @ + 1]
    /\ pc' = IF depth = 1 THEN "done" ELSE pc
    /\ last' = "return"
    /\ UNCHANGED <<inputs, candidates, visited, emitted, direct>>

Next ==
    \/ Infeasible
    \/ Start
    \/ Try
    \/ EmitEmpty
    \/ Return

Spec == Init /\ [][Next]_vars

\* ------------------------------------------------------------------------
\* Properties of the solutions solve emits
\* ------------------------------------------------------------------------
\* The solution solve yielded in the latest step, with the grid of the
\* search it was built on and the candidates chosen for it.
JustEmitted == last = "emit" /\ Len(emitted) >= 1

Latest == emitted[Len(emitted)]

ReqIdxs == 0..(Len(requirements) - 1)

\* The cells <<row, column>> of a grid that hold the value v.
Owned(grid, v) ==
    {c \in (0..(grid.nrows - 1)) \X (0..(grid.ncols - 1)) : At(grid, c[1], c[2]) = v}

\* The true cells of a mask translated by a position.
Stamp(mask, pos) ==
    {<<c[1] + pos.y, c[2] + pos.x>> :
        c \in {d \in (0..(mask.nrows - 1)) \X (0..(mask.ncols - 1)) : At(mask, d[1], d[2])}}

InGrid(c) ==
    /\ c[1] >= 0
    /\ c[1] < gridSettings.height
    /\ c[2] >= 0
    /\ c[2] < gridSettings.width

CornerCells ==
    {0, gridSettings.height - 1} \X {0, gridSettings.width - 1}

\* C1: in the final grid of every emitted solution each requirement owns
\* exactly the cells of its chosen candidate's mask translated by the
\* position of its placement in the solution; those cells lie inside the
\* grid, none is a FORBIDDEN corner and the cells of two requirements are
\* disjoint.
C1_Soundness ==
    JustEmitted =>
        /\ Len(Latest.solution) = Len(requirements)
        /\ \A i \in ReqIdxs :
            LET cells == Stamp(Latest.picks[i].mask, Nth(Latest.solution, i).loc.position)
            IN  /\ Owned(Latest.grid, i) = cells
                /\ \A c \in cells : InGrid(c)
                /\ gridSettings.hasOob => cells \cap CornerCells = {}
                /\ \A j \in ReqIdxs :
                    j # i =>
                        cells \cap Stamp(Latest.picks[j].mask,
                                         Nth(Latest.solution, j).loc.position) = {}

\* C1 witness: a solution of two requirements on the grid with forbidden
\* corners, both owning cells.
C1_Witness ==
    /\ JustEmitted
    /\ Len(requirements) = 2
    /\ gridSettings.hasOob
    /\ Owned(Latest.grid, 0) # {}
    /\ Owned(Latest.grid, 1) # {}

\* The outer ring of the grid: first and last row, first and last column.
OnOuterRing(c) ==
    \/ c[1] = 0
    \/ c[1] = gridSettings.height - 1
    \/ c[2] = 0
    \/ c[2] = gridSettings.width - 1

PartOf(i) == Nth(parts, Nth(requirements, i).partIndex)

\* Some cell of requirement i has a 4-neighbour owned by another
\* requirement whose part has the same colour.
TouchingSameColor(grid, i) ==
    \E c \in Owned(grid, i), j \in ReqIdxs :
        /\ j # i
        /\ PartOf(j).color = PartOf(i).color
        /\ \E d \in Owned(grid, j) :
            \/ d[1] = c[1] /\ (d[2] = c[2] + 1 \/ d[2] = c[2] - 1)
            \/ d[2] = c[2] /\ (d[1] = c[1] + 1 \/ d[1] = c[1] - 1)

OnCommandLine(grid, i) == \E c \in Owned(grid, i) : c[1] = gridSettings.commandLineRow

\* The bugged property of requirement i in a complete grid.
BuggedFinal(grid, i) ==
    \/ gridSettings.hasOob /\ \E c \in Owned(grid, i) : OnOuterRing(c)
    \/ PartOf(i).isSolid # OnCommandLine(grid, i)
    \/ TouchingSameColor(grid, i)

\* C2: in every emitted solution a requirement whose constraint.bugged is
\* specified has that value of the bugged property (outer ring on all four
\* sides, or solid differing from on-command-line, or touching the same
\* colour) in the final grid.
C2_BuggedMatches ==
    JustEmitted =>
        \A i \in ReqIdxs :
            LET bugged == Nth(requirements, i).constraint.bugged
            IN  bugged # NULL => (BuggedFinal(Latest.grid, i) = (bugged = YES))

\* C2 witness: a solution with one requirement constrained bugged and one
\* constrained not bugged.
C2_Witness ==
    /\ JustEmitted
    /\ Len(requirements) = 2
    /\ Nth(requirements, 0).constraint.bugged = YES
    /\ Nth(requirements, 1).constraint.bugged = NO
    /\ BuggedFinal(Latest.grid, 0)
    /\ ~BuggedFinal(Latest.grid, 1)

\* The masks obtained from a mask by 0..3 quarter turns.
Rotations(mask) == {rotated(mask, t) : t \in 0..3}

\* C3: a requirement whose constraint.compressed is specified gets only
\* candidates, and only emitted placements, with compressed equal to that
\* value and with a rotation of the corresponding mask (the uncompressed
\* mask for no, the compressed mask for yes), whatever the part.
C3_CompressedHonoured ==
    /\ \A k \in 1..Len(candidates) :
        LET i == candidates[k].reqIdx
            c == Nth(requirements, i).constraint.compressed
            wanted == IF c = YES THEN PartOf(i).compressedMask ELSE PartOf(i).uncompressedMask
        IN  c # NULL =>
                \A n \in 1..Len(candidates[k].cands) :
                    /\ candidates[k].cands[n].placement.compressed = (c = YES)
                    /\ candidates[k].cands[n].mask \in Rotations(wanted)
    /\ JustEmitted =>
        \A i \in ReqIdxs :
            LET c == Nth(requirements, i).constraint.compressed
            IN  c # NULL => Nth(Latest.solution, i).compressed = (c = YES)

\* C4: in every emitted solution a requirement with onCommandLine == no
\* has no cell on the command line row.
C4_OffCommandLine ==
    JustEmitted =>
        \A i \in ReqIdxs :
            Nth(requirements, i).constraint.onCommandLine = NO
                => ~OnCommandLine(Latest.grid, i)

\* The final grid with every requirement index replaced by its part index.
PartIdentity(grid) ==
    [k \in 1..Len(grid.cells) |->
        IF grid.cells[k] >= 0
        THEN [part |-> Nth(requirements, grid.cells[k]).partIndex]
        ELSE [sentinel |-> grid.cells[k]]]

\* C5: no two solutions emitted in one run of solve have the same
\* part-identity grid.
C5_NoDuplicateGrids ==
    JustEmitted =>
        \A a, b \in 1..Len(emitted) :
            a < b => PartIdentity(emitted[a].grid) # PartIdentity(emitted[b].grid)

\* C5 witness: a second solution is emitted for two requirements of the
\* same part, where exchanging the two would give the same grid.
C5_Witness ==
    /\ JustEmitted
    /\ Len(emitted) >= 2
    /\ Len(requirements) = 2
    /\ Nth(requirements, 0).partIndex = Nth(requirements, 1).partIndex
    /\ Nth(requirements, 0).constraint = Nth(requirements, 1).constraint

\* The cell map of a grid: owners kept, sentinel cells empty.
CellMap(grid) == [k \in 1..Len(grid.cells) |-> IF grid.cells[k] < 0 THEN UNDEFINED ELSE grid.cells[k]]

\* C6: placeAll of every emitted solution is valid and returns the owners
\* of the final grid of the search.
C6_RoundTrip ==
    JustEmitted =>
        LET r == placeAll(parts, requirements, Latest.solution, gridSettings)
        IN  /\ r.valid
            /\ r.cells = CellMap(Latest.grid)

\* The number of true cells of a mask.
CellCount(mask) == Cardinality({k \in 1..Len(mask.cells) : mask.cells[k]})

RECURSIVE RequiredCells(_)
RequiredCells(n) ==
    IF n = 0
    THEN 0
    ELSE RequiredCells(n - 1)
         + (IF requirements[n].constraint.compressed = NO
            THEN CellCount(Nth(parts, requirements[n].partIndex).uncompressedMask)
            ELSE CellCount(Nth(parts, requirements[n].partIndex).compressedMask))

RowOutOfRange == gridSettings.commandLineRow > gridSettings.height

TooManyOnCommandLine ==
    Cardinality({i \in ReqIdxs : Nth(requirements, i).constraint.onCommandLine = YES})
        > gridSettings.width

TooManyCells ==
    RequiredCells(Len(requirements))
        > gridSettings.width * gridSettings.height - (IF gridSettings.hasOob THEN 4 ELSE 0)

\* C7: when a pre-check triggers (command line row beyond the height, more
\* requirements on the command line than columns, more cells than the grid
\* has free), solve ends without a solution.
C7_InfeasibleYieldsNothing ==
    (pc # "start" /\ (RowOutOfRange \/ TooManyOnCommandLine \/ TooManyCells))
        => (pc = "done" /\ emitted = <<>>)

\* C7 witness: solve has ended on requirements that need more cells than
\* the grid has, the other two pre-checks being passed.
C7_Witness ==
    /\ pc = "done"
    /\ emitted = <<>>
    /\ TooManyCells
    /\ ~RowOutOfRange
    /\ ~TooManyOnCommandLine
    /\ ~gridSettings.hasOob

\* C15: every emitted solution has exactly one placement per requirement,
\* and its placement at index i is the placement of the candidate the
\* search chose for requirement i.
C15_OnePlacementPerRequirement ==
    JustEmitted =>
        /\ Len(Latest.solution) = Len(requirements)
        /\ \A i \in ReqIdxs : Nth(Latest.solution, i) = Latest.picks[i].placement

\* C15 witness: a solution of two requirements that the sort put in the
\* order 1, 0 and that got different placements.
C15_Witness ==
    /\ JustEmitted
    /\ Len(requirements) = 2
    /\ candidates[1].reqIdx = 1
    /\ Len(candidates[1].cands) < Len(candidates[2].cands)
    /\ Nth(Latest.solution, 0) # Nth(Latest.solution, 1)

\* The latest step ran the global check: helper, at its last depth, called
\* solutionIsAdmissible on the grid it had just stamped.
GloballyChecked == pc = "search" /\ last \in {"emit", "globalReject"}

\* That complete grid: the grid of the helper call with the candidate the
\* loop has just left stamped on it.
CheckedGrid ==
    LET candidate == curCands[top.next - 1]
    IN  place(clone(top.grid), candidate.mask, candidate.placement.loc.position,
              curReqIdx).grid

\* C17: the global check on a complete grid returns true exactly when every
\* requirement whose constraint.bugged is specified has that value of the
\* bugged property: some cell on the outer ring (row 0, last row, column 0
\* or last column) when hasOob, or solid differing from on-command-line, or
\* touching the same colour.
C17_GlobalCheck ==
    GloballyChecked =>
        ((last = "emit") <=>
            \A i \in ReqIdxs :
                LET bugged == Nth(requirements, i).constraint.bugged
                IN  bugged # NULL => (BuggedFinal(CheckedGrid, i) = (bugged = YES)))

\* solve computed the candidates, ran the search and has ended.
SearchEnded == pc = "done" /\ last # "infeasible"

\* The assignments of one candidate to each requirement: a[k] is the index
\* of a candidate in the list candidates[k].cands.
Assignments ==
    LET lengths == {Len(candidates[k].cands) : k \in 1..Len(candidates)} \cup {0}
        longest == CHOOSE n \in lengths : \A m \in lengths : m <= n
    IN  {a \in [1..Len(candidates) -> 1..longest] :
            \A k \in DOMAIN a : a[k] <= Len(candidates[k].cands)}

AssignedStamp(a, k) ==
    LET candidate == candidates[k].cands[a[k]]
    IN  Stamp(candidate.mask, candidate.placement.loc.position)

\* The grid in which every requirement owns the stamp of its candidate.
AssignedGrid(a) ==
    LET new == NewGrid(gridSettings)
    IN  [new EXCEPT !.cells =
            [idx \in 1..Len(new.cells) |->
                LET c == <<(idx - 1) \div new.ncols, (idx - 1) % new.ncols>>
                IN  IF \E k \in DOMAIN a : c \in AssignedStamp(a, k)
                    THEN candidates[CHOOSE k \in DOMAIN a : c \in AssignedStamp(a, k)].reqIdx
                    ELSE new.cells[idx]]]

\* The stamps of an assignment do not overlap, each passes the local check
\* and the grid passes the global check.
ValidAssignment(a) ==
    /\ \A k, m \in DOMAIN a : k # m => AssignedStamp(a, k) \cap AssignedStamp(a, m) = {}
    /\ \A k \in DOMAIN a :
        LET i == candidates[k].reqIdx
        IN  placementIsAdmissible(AssignedGrid(a), PartOf(i).isSolid, i,
                                  Nth(requirements, i).constraint.onCommandLine,
                                  Nth(requirements, i).constraint.bugged)
    /\ solutionIsAdmissible(parts, requirements, AssignedGrid(a))

\* C18: when solve ends, for every assignment of one candidate to each
\* requirement whose stamps do not overlap and that passes the local and
\* the global check, solve has emitted a solution whose part-identity grid
\* is the part-identity grid of the assignment.
C18_CompleteUpToPartIdentity ==
    SearchEnded =>
        \A a \in Assignments :
            ValidAssignment(a) =>
                \E k \in 1..Len(emitted) :
                    PartIdentity(emitted[k].grid) = PartIdentity(AssignedGrid(a))

\* C19: for a requirement whose constraint.compressed is unspecified and
\* whose part has two different masks, every candidate tagged compressed =
\* true carries a rotation of the compressed mask and every candidate
\* tagged compressed = false carries a rotation of the uncompressed mask.
C19_UnspecifiedUsesBothMasks ==
    \A k \in 1..Len(candidates) :
        LET i == candidates[k].reqIdx
        IN  (/\ Nth(requirements, i).constraint.compressed = NULL
             /\ PartOf(i).compressedMask # PartOf(i).uncompressedMask)
            => \A n \in 1..Len(candidates[k].cands) :
                   LET candidate == candidates[k].cands[n]
                   IN  candidate.mask \in
                           Rotations(IF candidate.placement.compressed
                                     THEN PartOf(i).compressedMask
                                     ELSE PartOf(i).uncompressedMask)

\* The new grid with the given cells owned by requirement 0, as the stamp
\* of a candidate on an empty grid leaves it.
StampedAlone(cells) ==
    LET new == NewGrid(gridSettings)
    IN  [new EXCEPT !.cells =
            [idx \in 1..Len(new.cells) |->
                IF <<(idx - 1) \div new.ncols, (idx - 1) % new.ncols>> \in cells
                THEN 0
                ELSE new.cells[idx]]]

\* A mask surely selected for requirement i: the uncompressed mask when
\* constraint.compressed is no, the compressed mask otherwise.
SelectedMask(i) ==
    IF Nth(requirements, i).constraint.compressed = NO
    THEN PartOf(i).uncompressedMask
    ELSE PartOf(i).compressedMask

\* The rotations enumerated for requirement i: all four when the colour of
\* its part is spinnable, rotation 0 alone otherwise.
SelectedRotations(i) ==
    IF /\ PartOf(i).color + 1 \in DOMAIN spinnableColors
       /\ Nth(spinnableColors, PartOf(i).color)
    THEN 0..3
    ELSE {0}

\* The stamp lands on in-grid EMPTY cells of the empty grid and passes the
\* local check of requirement i.
FitsAlone(cells, i) ==
    /\ \A c \in cells : InGrid(c) /\ ~(gridSettings.hasOob /\ c \in CornerCells)
    /\ placementIsAdmissible(StampedAlone(cells), PartOf(i).isSolid, 0,
                             Nth(requirements, i).constraint.onCommandLine,
                             Nth(requirements, i).constraint.bugged)

\* C20: once solve has computed the candidates, for every requirement,
\* every rotation enumerated of its selected mask and every integer
\* position at which all true cells land on in-grid EMPTY cells of the
\* empty grid and the local check passes, the candidate list of the
\* requirement has a candidate that occupies the same grid cells, whatever
\* the dimensions of the mask.
C20_CandidatesComplete ==
    last = "start" =>
        \A k \in 1..Len(candidates) :
            LET i == candidates[k].reqIdx
            IN  \A t \in SelectedRotations(i) :
                    LET mask == rotated(SelectedMask(i), t)
                    IN  \A x \in (1 - mask.ncols)..(gridSettings.width - 1),
                           y \in (1 - mask.nrows)..(gridSettings.height - 1) :
                            LET cells == Stamp(mask, [x |-> x, y |-> y])
                            IN  FitsAlone(cells, i) =>
                                    \E n \in 1..Len(candidates[k].cands) :
                                        Stamp(candidates[k].cands[n].mask,
                                              candidates[k].cands[n].placement.loc.position)
                                            = cells

\* C21: in every emitted solution a requirement with onCommandLine = yes
\* owns at least one cell of row commandLineRow in the final grid.
C21_OnCommandLine ==
    JustEmitted =>
        \A i \in ReqIdxs :
            Nth(requirements, i).constraint.onCommandLine = YES
                => OnCommandLine(Latest.grid, i)

\* C21 witness: a solution of two requirements, one required on the
\* command line and owning a cell off it too, the other entirely off it.
C21_Witness ==
    /\ JustEmitted
    /\ Len(requirements) = 2
    /\ Nth(requirements, 0).constraint.onCommandLine = YES
    /\ \E c \in Owned(Latest.grid, 0) : c[1] # gridSettings.commandLineRow
    /\ Owned(Latest.grid, 1) # {}
    /\ ~OnCommandLine(Latest.grid, 1)

\* The interior of the grid: row and column strictly between the first
\* and the last.
Interior(c) ==
    /\ c[1] > 0
    /\ c[1] < gridSettings.height - 1
    /\ c[2] > 0
    /\ c[2] < gridSettings.width - 1

\* C22: with hasOob every candidate generated occupies at least one
\* interior cell, and in every emitted solution every requirement owns at
\* least one interior cell.
C22_NotEntirelyOnRing ==
    gridSettings.hasOob =>
        /\ \A k \in 1..Len(candidates) :
              \A n \in 1..Len(candidates[k].cands) :
                  \E c \in Stamp(candidates[k].cands[n].mask,
                                 candidates[k].cands[n].placement.loc.position) :
                      Interior(c)
        /\ JustEmitted =>
              \A i \in ReqIdxs : \E c \in Owned(Latest.grid, i) : Interior(c)

\* C22 witness: with hasOob, a solution in which a requirement owns a cell
\* of the outer ring beside an interior one.
C22_Witness ==
    /\ gridSettings.hasOob
    /\ JustEmitted
    /\ \E i \in ReqIdxs :
        /\ \E c \in Owned(Latest.grid, i) : OnOuterRing(c)
        /\ \E c \in Owned(Latest.grid, i) : Interior(c)

\* The trimmed shape of a mask: its true cells moved to the top-left, which
\* is the cells of the smallest sub-array holding them and its dimensions.
Shape(mask) ==
    LET cells == Stamp(mask, [x |-> 0, y |-> 0])
        minRow == CHOOSE r \in {c[1] : c \in cells} : \A c \in cells : r <= c[1]
        minCol == CHOOSE r \in {c[2] : c \in cells} : \A c \in cells : r <= c[2]
    IN  {<<c[1] - minRow, c[2] - minCol>> : c \in cells}

CandidateStamp(candidate) == Stamp(candidate.mask, candidate.placement.loc.position)

\* C23: once solve has computed the candidates (they do not change
\* afterwards), in the candidate list of a requirement the candidates of rotation
\* 0 are the positions of the unrotated mask, in order; a candidate of
\* rotation 1..3 never has the trimmed shape of an earlier rotation; and no
\* two candidates generated from one mask with different rotations occupy
\* the same grid cells.
C23_DuplicateRotationsSkipped ==
    last = "start" =>
    \A k \in 1..Len(candidates) :
        LET i == candidates[k].reqIdx
            cands == candidates[k].cands
            unrotated ==
                placementPositionsForMask(SelectedMask(i), PartOf(i).isSolid, gridSettings,
                    Nth(requirements, i).constraint.onCommandLine,
                    Nth(requirements, i).constraint.bugged)
        IN  /\ \A p \in 1..Len(unrotated) :
                  /\ p <= Len(cands)
                  /\ cands[p].placement.loc = [position |-> unrotated[p], rotation |-> 0]
            /\ \A n \in 1..Len(cands) :
                  /\ cands[n].placement.loc.rotation \in SelectedRotations(i)
                  /\ \A t \in 0..(cands[n].placement.loc.rotation - 1) :
                        Shape(cands[n].mask) # Shape(rotated(SelectedMask(i), t))
            /\ \A n, m \in 1..Len(cands) :
                  (/\ cands[n].placement.compressed = cands[m].placement.compressed
                   /\ cands[n].placement.loc.rotation # cands[m].placement.loc.rotation)
                  => CandidateStamp(cands[n]) # CandidateStamp(cands[m])

\* C23 witness: two spinnable requirements with candidates, one whose mask
\* has the same trimmed shape after a quarter turn and so has candidates of
\* rotation 0 only, one with candidates of rotation 1, 2 and 3.
C23_Witness ==
    /\ Len(candidates) = 2
    /\ \E k \in 1..2 :
        LET i == candidates[k].reqIdx
        IN  /\ SelectedRotations(i) = 0..3
            /\ Shape(rot90(SelectedMask(i))) = Shape(SelectedMask(i))
            /\ Len(candidates[k].cands) > 0
            /\ \A n \in 1..Len(candidates[k].cands) :
                  candidates[k].cands[n].placement.loc.rotation = 0
    /\ \E k \in 1..2 :
        \A t \in 1..3 :
            \E n \in 1..Len(candidates[k].cands) :
                candidates[k].cands[n].placement.loc.rotation = t

\* C24: once solve has computed the candidates, for a spinnable requirement
\* a rotation 1..3 of the selected mask whose trimmed shape differs from
\* the trimmed shape of every earlier rotation is enumerated: each of its
\* positions is a candidate with that rotation.
C24_DistinctRotationsKept ==
    last = "start" =>
        \A k \in 1..Len(candidates) :
            LET i == candidates[k].reqIdx
            IN  \A t \in SelectedRotations(i) \ {0} :
                    (\A e \in 0..(t - 1) :
                        Shape(rotated(SelectedMask(i), t)) # Shape(rotated(SelectedMask(i), e)))
                    => LET positions ==
                               placementPositionsForMask(rotated(SelectedMask(i), t),
                                   PartOf(i).isSolid, gridSettings,
                                   Nth(requirements, i).constraint.onCommandLine,
                                   Nth(requirements, i).constraint.bugged)
                       IN  \A p \in 1..Len(positions) :
                               \E n \in 1..Len(candidates[k].cands) :
                                   candidates[k].cands[n].placement.loc
                                       = [position |-> positions[p], rotation |-> t]

\* What stamping the candidate helper is about to try gives: the value
\* place returns and the grid it leaves.
TriedStamp ==
    place(clone(top.grid), curCandidate.mask, curCandidate.placement.loc.position,
          curReqIdx)

TriedLocalOk ==
    placementIsAdmissible(TriedStamp.grid, curPart.isSolid, curReqIdx,
                          curReq.constraint.onCommandLine, curReq.constraint.bugged)

\* The fingerprint of a stamped grid: the low 8 bits of the part index of
\* every owned cell and of -1 for every other cell, row-major.
Fingerprint(grid) ==
    [k \in 1..Len(grid.cells) |->
        (IF grid.cells[k] >= 0
         THEN Nth(requirements, grid.cells[k]).partIndex
         ELSE 0 - 1) % 256]

\* C25: a fingerprint once inserted in visited stays there in every later
\* step of the search; a candidate whose stamp succeeds and passes the
\* local check while the fingerprint of its grid is in visited is skipped:
\* no recursive call, nothing emitted, visited as before; a candidate whose
\* stamp fails or fails the local check leaves visited as it was; any other
\* candidate inserts the fingerprint of its grid.
C25_VisitedGrows ==
    [][/\ visited \subseteq visited'
       /\ Trying =>
             IF ~TriedStamp.ok \/ ~TriedLocalOk
             THEN visited' = visited
             ELSE IF Fingerprint(TriedStamp.grid) \in visited
             THEN /\ visited' = visited
                  /\ Len(stack') = Len(stack)
                  /\ emitted' = emitted
                  /\ stack'[depth].next = top.next + 1
             ELSE visited' = visited \cup {Fingerprint(TriedStamp.grid)}]_vars

\* C25 witness: helper has just skipped a candidate whose fingerprint was
\* in visited, one level down from the first requirement.
C25_Witness ==
    /\ last = "seenBefore"
    /\ depth = 2
    /\ Cardinality(visited) >= 3

\* grid with the cells of a stamp given to requirement v.
WithStamp(grid, cells, v) ==
    [grid EXCEPT !.cells =
        [idx \in 1..Len(grid.cells) |->
            IF <<(idx - 1) \div grid.ncols, (idx - 1) % grid.ncols>> \in cells
            THEN v
            ELSE grid.cells[idx]]]

\* C26: the grid passed to a helper call stays as it was in every step
\* while the call is live, whatever its candidates do (failed place with
\* partial writes, failed local check, seen fingerprint, full exploration);
\* the first call gets a new grid and every recursive call gets the grid
\* of its caller with the stamp of the caller's candidate added.
C26_BacktrackingIsolation ==
    [][/\ \A d \in 1..Len(stack) : d <= Len(stack') => stack'[d].grid = stack[d].grid
       /\ Len(stack') > Len(stack) =>
             IF Len(stack) = 0
             THEN stack'[1].grid = NewGrid(gridSettings)
             ELSE stack'[depth + 1].grid
                      = WithStamp(top.grid, CandidateStamp(curCandidate), curReqIdx)]_vars

\* C26 witness: at the second depth a place has just failed after writing
\* a cell on its clone, and the helper call has a candidate left to try.
C26_Witness ==
    /\ pc = "search"
    /\ last = "placeFails"
    /\ depth = 2
    /\ top.next <= Len(curCands)
    /\ LET candidate == curCands[top.next - 1]
       IN  place(clone(top.grid), candidate.mask, candidate.placement.loc.position,
                 curReqIdx).grid # top.grid

\* C28: during the search the requirements are handled, depth after depth,
\* in the order of their number of candidates, ascending, and of their
\* original index among those with equally many: each requirement is
\* handled at one depth, the grid passed to depth d holds the stamps of the
\* requirements of the depths before d and no others, the requirement of
\* depth d has no more candidates than the one of depth d + 1, and with
\* equally many it has the smaller index.
C28_SearchOrder ==
    pc = "search" =>
        /\ Len(candidates) = Len(requirements)
        /\ {candidates[d].reqIdx : d \in 1..Len(candidates)} = ReqIdxs
        /\ \A d \in 1..(Len(candidates) - 1) :
              \/ Len(candidates[d].cands) < Len(candidates[d + 1].cands)
              \/ /\ Len(candidates[d].cands) = Len(candidates[d + 1].cands)
                 /\ candidates[d].reqIdx < candidates[d + 1].reqIdx
        /\ \A d \in 1..Len(stack) :
              \A i \in ReqIdxs :
                  (Owned(stack[d].grid, i) # {})
                      = (\E e \in 1..(d - 1) : candidates[e].reqIdx = i)

\* C28 witness: the search is at its second depth with requirement 1,
\* which has fewer candidates, handled first.
C28_Witness ==
    /\ pc = "search"
    /\ depth = 2
    /\ candidates[1].reqIdx = 1
    /\ Len(candidates[1].cands) < Len(candidates[2].cands)
    /\ Owned(top.grid, 1) # {}

\* ------------------------------------------------------------------------
\* Grid.place called directly on a Grid
\* ------------------------------------------------------------------------
\* The largest side of a stamped mask and the largest offset of a position.
MaxMaskSide == 2

MaxOffset == 2

PlaceMasks ==
    UNION {{Mask(r, c, cells) : cells \in [1..(r * c) -> BOOLEAN]} :
              r \in 1..MaxMaskSide, c \in 1..MaxMaskSide}

PlacePositions == [x : (1 - MaxOffset)..MaxOffset, y : (1 - MaxOffset)..MaxOffset]

\* Grids smaller and larger than the masks, with and without corners.
PlaceGridSettingsSet ==
    { Settings(2, 2, FALSE, 0),
      Settings(3, 2, TRUE, 1),
      Settings(2, 1, FALSE, 0) }

\* The grids of given settings in which requirement 0 owns some cells: each
\* is what stamps of one-cell masks for requirement 0 leave of a new Grid.
GridsWithOwner(settings) ==
    {[NewGrid(settings) EXCEPT !.cells = cells] :
        cells \in {f \in [1..(settings.height * settings.width) -> {FORBIDDEN, EMPTY, 0}] :
                      \A i \in DOMAIN f :
                          (f[i] = FORBIDDEN) = (NewGrid(settings).cells[i] = FORBIDDEN)}}

InitPlace ==
    /\ parts = <<>>
    /\ requirements = <<>>
    /\ gridSettings \in PlaceGridSettingsSet
    /\ spinnableColors = <<>>
    /\ pc = "place"
    /\ candidates = <<>>
    /\ stack = <<>>
    /\ visited = {}
    /\ emitted = <<>>
    /\ last = "none"
    /\ gridObj \in GridsWithOwner(gridSettings)
    /\ call = NoCall
    /\ solver = NoSolver

\* gridObj.place(mask, pos, reqIdx): the grid keeps what the call wrote.
PlaceCall ==
    /\ pc = "place"
    /\ call = NoCall
    /\ \E mask \in PlaceMasks, pos \in PlacePositions, reqIdx \in 0..1 :
        LET r == place(gridObj, mask, pos, reqIdx)
        IN  /\ gridObj' = r.grid
            /\ call' = [op |-> "place", mask |-> mask, pos |-> pos, reqIdx |-> reqIdx,
                        before |-> gridObj, ok |-> r.ok]
    /\ UNCHANGED <<parts, requirements, gridSettings, search>>

SpecPlace == InitPlace /\ [][PlaceCall]_vars

Placed == call.op = "place"

\* C8: a call of place that returns false leaves every cell of the grid
\* as it was.
C8_FailedPlaceKeepsGrid ==
    (Placed /\ ~call.ok) => gridObj.cells = call.before.cells

\* The grid cells the true cells of the mask project on, inside the grid or not.
Projections == Stamp(call.mask, call.pos)

\* C9: place returns false when a true cell of the mask projects outside
\* the grid or on a cell that is not EMPTY; when it returns true the
\* projections of the true cells hold reqIdx and every other cell is as
\* before.
C9_PlaceResult ==
    Placed =>
        /\ (\E c \in Projections : ~InGrid(c) \/ At(call.before, c[1], c[2]) # EMPTY)
              => ~call.ok
        /\ call.ok =>
              \A y \in 0..(gridObj.nrows - 1), x \in 0..(gridObj.ncols - 1) :
                  At(gridObj, y, x) =
                      IF <<y, x>> \in Projections THEN call.reqIdx ELSE At(call.before, y, x)

\* C9 witness: a successful stamp of two cells, shifted left of the grid's
\* origin, beside a cell another requirement owns.
C9_Witness ==
    /\ Placed
    /\ call.ok
    /\ call.pos.x < 0
    /\ Cardinality(Projections) = 2
    /\ \E v \in 0..1 : v # call.reqIdx /\ Owned(call.before, v) # {}

\* ------------------------------------------------------------------------
\* placeAll called directly
\* ------------------------------------------------------------------------
\* The longest list of placements handed to placeAll.
MaxPlacements == 2

PlaceAllRequirementLists ==
    UNION {[1..n -> {r \in Requirements : r.constraint = Constraint(NULL, NULL, NULL)}] :
              n \in 0..MaxPlacements}

PlaceAllGridSettingsSet == { Settings(4, 3, TRUE, 1), Settings(2, 3, FALSE, 0) }

Placements ==
    [loc : [position : [x : {0 - 1, 0, 1}, y : {0 - 1, 0}], rotation : 0..3],
     compressed : BOOLEAN]

InitPlaceAll ==
    /\ parts = Parts
    /\ requirements \in PlaceAllRequirementLists
    /\ gridSettings \in PlaceAllGridSettingsSet
    /\ spinnableColors = <<>>
    /\ pc = "placeAll"
    /\ candidates = <<>>
    /\ stack = <<>>
    /\ visited = {}
    /\ emitted = <<>>
    /\ last = "none"
    /\ gridObj = NewGrid(gridSettings)
    /\ call = NoCall
    /\ solver = NoSolver

\* placeAll(parts, requirements, placements, gridSettings).
PlaceAllCall ==
    /\ pc = "placeAll"
    /\ call = NoCall
    /\ \E placements \in [1..Len(requirements) -> Placements] :
        call' = [op |-> "placeAll", placements |-> placements,
                 result |-> placeAll(parts, requirements, placements, gridSettings)]
    /\ UNCHANGED <<parts, requirements, gridSettings, search, gridObj>>

SpecPlaceAll == InitPlaceAll /\ [][PlaceAllCall]_vars

\* A quarter turn clockwise: the cell at row i, column j of an r x c mask
\* goes to row j, column r - 1 - i of a c x r mask.
Clockwise(mask) ==
    [nrows |-> mask.ncols, ncols |-> mask.nrows,
     cells |-> [k \in 1..(mask.nrows * mask.ncols) |->
                  At(mask, mask.nrows - 1 - ((k - 1) % mask.nrows), (k - 1) \div mask.nrows)]]

RECURSIVE Turned(_, _)
Turned(mask, times) == IF times = 0 THEN mask ELSE Turned(Clockwise(mask), times - 1)

\* The cells of a cell map that hold the value v.
MapOwned(cells, v) ==
    {c \in (0..(gridSettings.height - 1)) \X (0..(gridSettings.width - 1)) :
        cells[c[1] * gridSettings.width + c[2] + 1] = v}

\* C10: in the cell map placeAll returns, requirement i owns the cells of
\* its part's compressed mask when placements[i].compressed is true, of the
\* uncompressed mask when it is false, turned rotation times clockwise and
\* translated by the position.
C10_PlaceAllSelectsMask ==
    (call.op = "placeAll" /\ call.result.valid) =>
        \A i \in ReqIdxs :
            LET placement == Nth(call.placements, i)
                mask == IF placement.compressed
                        THEN PartOf(i).compressedMask
                        ELSE PartOf(i).uncompressedMask
            IN  MapOwned(call.result.cells, i)
                    = Stamp(Turned(mask, placement.loc.rotation), placement.loc.position)

\* The cells the stamp of placement i of the latest placeAll call projects
\* on: the mask placeAll takes for it, turned rotation times, translated by
\* the position.
StampOf(i) ==
    LET placement == Nth(call.placements, i)
    IN  Stamp(Turned(PartOf(i).compressedMask, placement.loc.rotation),
              placement.loc.position)

\* The stamps i, i + 1, ... taken in order each land on cells inside the
\* grid that are EMPTY once the stamps before them are made.
RECURSIVE StampsFit(_, _)
StampsFit(i, occupied) ==
    IF i >= Len(call.placements)
    THEN TRUE
    ELSE /\ \A c \in StampOf(i) :
              /\ InGrid(c)
              /\ ~(gridSettings.hasOob /\ c \in CornerCells)
              /\ c \notin occupied
         /\ StampsFit(i + 1, occupied \cup StampOf(i))

\* C11: placeAll returns the invalid result exactly when some stamp, taken
\* in requirement order on the grid built so far, hits a cell outside the
\* grid or a cell that is not EMPTY; otherwise it returns height * width
\* cells in which the cells of stamp i hold i and all other cells are empty.
C11_PlaceAllResult ==
    call.op = "placeAll" =>
        /\ call.result.valid = StampsFit(0, {})
        /\ call.result.valid =>
              /\ Len(call.result.cells) = gridSettings.height * gridSettings.width
              /\ \A i \in ReqIdxs : MapOwned(call.result.cells, i) = StampOf(i)
              /\ \A k \in 1..Len(call.result.cells) :
                    call.result.cells[k] \in ReqIdxs \cup {UNDEFINED}

\* ------------------------------------------------------------------------
\* solve on the scenario inputs
\* ------------------------------------------------------------------------
\* The longest requirement list tried on the 3x3 grid of scenario S2.
MaxScenarioReqs == 1

MaskS1 == Mask(2, 3, <<TRUE, FALSE, TRUE, TRUE, TRUE, FALSE>>)

MaskS3 == Mask(3, 3, <<TRUE, FALSE, FALSE, TRUE, TRUE, FALSE, TRUE, FALSE, FALSE>>)

SolidPart(mask) ==
    [isSolid |-> TRUE, color |-> 0, compressedMask |-> mask, uncompressedMask |-> mask]

Scenario(ps, reqs, settings, spinnable) ==
    [parts |-> ps, requirements |-> reqs, gridSettings |-> settings,
     spinnableColors |-> spinnable]

\* Two requirements of part 0, both to be on the command line.
TwoOnCommandLine ==
    << [partIndex |-> 0, constraint |-> Constraint(NULL, YES, NULL)],
       [partIndex |-> 0, constraint |-> Constraint(NULL, YES, NULL)] >>

ScenariosS1 ==
    {Scenario(<<SolidPart(MaskS1)>>, TwoOnCommandLine, Settings(7, 7, TRUE, 3), <<sp>>) :
        sp \in BOOLEAN}

\* The 3x3 grid whose command line row is the height or beyond it.
ScenariosS2 ==
    {Scenario(Parts, reqs, Settings(3, 3, FALSE, r), sp) :
        reqs \in UNION {[1..n -> Requirements] : n \in 0..MaxScenarioReqs},
        r \in {3, 4},
        sp \in SpinnableColorsSet}

ScenariosS3 ==
    {Scenario(<<SolidPart(MaskS3)>>, TwoOnCommandLine, Settings(7, 7, FALSE, 1), <<sp>>) :
        sp \in BOOLEAN}

\* A long part list: 257 one-cell solid parts, so that the part indices 255
\* and 256 exist; one or two unconstrained requirements of parts 0, 255 and
\* 256 on a 2x2 grid.
ManyParts == [k \in 1..257 |-> SolidPart(MaskSingle)]

ScenariosManyParts ==
    {Scenario(ManyParts, reqs, Settings(2, 2, FALSE, 0), <<FALSE>>) :
        reqs \in UNION {[1..n -> {[partIndex |-> q, constraint |-> Constraint(NULL, NULL, NULL)] :
                                    q \in {0, 255, 256}}] : n \in 1..2}}

InitScenarios ==
    /\ \E s \in ScenariosS1 \cup ScenariosS2 \cup ScenariosS3 \cup ScenariosManyParts :
        /\ parts = s.parts
        /\ requirements = s.requirements
        /\ gridSettings = s.gridSettings
        /\ spinnableColors = s.spinnableColors
    /\ pc = "start"
    /\ candidates = <<>>
    /\ stack = <<>>
    /\ visited = {}
    /\ emitted = <<>>
    /\ last = "none"
    /\ gridObj = NewGrid(gridSettings)
    /\ call = NoCall
    /\ solver = NoSolver

SpecScenarios == InitScenarios /\ [][Next]_vars

Done == pc = "done"

InScenarioS1 ==
    /\ gridSettings = Settings(7, 7, TRUE, 3)
    /\ parts = <<SolidPart(MaskS1)>>
    /\ requirements = TwoOnCommandLine

\* C12: in scenario S1 (7x7 grid with forbidden corners, command line row
\* 3, two requirements on the command line of the solid part with the 2x3
\* mask T,F,T / T,T,F), solve has yielded at least one solution when it
\* ends, for either value of spinnableColors[0].
C12_ScenarioS1 ==
    (InScenarioS1 /\ Done) => Len(emitted) >= 1

InScenarioS3 ==
    /\ gridSettings = Settings(7, 7, FALSE, 1)
    /\ parts = <<SolidPart(MaskS3)>>
    /\ requirements = TwoOnCommandLine

\* C13: in scenario S3 (7x7 grid without forbidden corners, command line
\* row 1, two requirements on the command line of the solid part with the
\* 3x3 mask T,F,F / T,T,F / T,F,F), solve has yielded more than one
\* solution when it ends.
C13_ScenarioS3 ==
    (InScenarioS3 /\ Done) => Len(emitted) > 1

InScenarioS2 ==
    /\ gridSettings.height = 3
    /\ gridSettings.width = 3
    /\ ~gridSettings.hasOob
    /\ gridSettings.commandLineRow >= gridSettings.height

\* C14: in scenario S2 (3x3 grid whose command line row, 3, is out of
\* range) solve yields nothing, whatever the requirement list, the empty
\* list and a single unconstrained plus part included.
C14_ScenarioS2 ==
    InScenarioS2 => emitted = <<>>

\* ------------------------------------------------------------------------
\* solve, place and placeAll together
\* ------------------------------------------------------------------------
\* A run of solve, a direct call of place or a direct call of placeAll.
InitAll == Init \/ InitPlace \/ InitPlaceAll

NextAll == Next \/ PlaceCall \/ PlaceAllCall

SpecAll == InitAll /\ [][NextAll]_vars

\* The four corners of a grid hold FORBIDDEN.
CornersForbidden(grid) ==
    \A c \in CornerCells : At(grid, c[1], c[2]) = FORBIDDEN

\* C16: with hasOob the four corners are FORBIDDEN in the new grid and in
\* every grid clone and place produce: the grid of every live helper call
\* and of every emitted solution in solve, the grid before and after a
\* direct call of place, whether it returned true or false; in the cell map
\* of placeAll no requirement owns a corner.
C16_CornersStayForbidden ==
    gridSettings.hasOob =>
        /\ CornersForbidden(NewGrid(gridSettings))
        /\ CornersForbidden(gridObj)
        /\ \A k \in 1..Len(stack) : CornersForbidden(stack[k].grid)
        /\ \A k \in 1..Len(emitted) : CornersForbidden(emitted[k].grid)
        /\ call.op = "place" => CornersForbidden(call.before)
        /\ (call.op = "placeAll" /\ call.result.valid) =>
              \A c \in CornerCells :
                  call.result.cells[c[1] * gridSettings.width + c[2] + 1] = UNDEFINED

\* C16 witness: a direct call of place that passes the first loop, with a
\* true cell of the mask projecting on a corner; the call returns false.
C16_Witness ==
    /\ gridSettings.hasOob
    /\ call.op = "place"
    /\ Projections \cap CornerCells # {}
    /\ placeWindowOk(call.mask, call.pos)
    /\ ~call.ok

\* The grids solve has stamped or can stamp first: each candidate of the
\* first requirement handled on a new grid, the grids of the live helper
\* calls and of the emitted solutions.
StampedGrids ==
    {stack[k].grid : k \in 1..Len(stack)}
    \cup {emitted[k].grid : k \in 1..Len(emitted)}
    \cup (IF Len(candidates) = 0
          THEN {}
          ELSE {WithStamp(NewGrid(gridSettings), CandidateStamp(candidates[1].cands[n]),
                          candidates[1].reqIdx) : n \in 1..Len(candidates[1].cands)})

\* C27: two stamped grids whose part-identity grids differ in some cell (a
\* cell EMPTY in one and owned in the other included) have different
\* fingerprints, whatever the part indices, 255 and above included.
C27_FingerprintInjective ==
    \A g, h \in StampedGrids :
        PartIdentity(g) # PartIdentity(h)
            => gridByPartsOf(g, requirements) # gridByPartsOf(h, requirements)

\* ------------------------------------------------------------------------
\* array2d.rot90 called directly
\* ------------------------------------------------------------------------
\* The largest side of an array handed to rot90.
MaxArraySide == 3

Arrays ==
    UNION {{Mask(r, c, cells) : cells \in [1..(r * c) -> BOOLEAN]} :
              r \in 1..MaxArraySide, c \in 1..MaxArraySide}

InitRot ==
    /\ parts = <<>>
    /\ requirements = <<>>
    /\ gridSettings = Settings(0, 0, FALSE, 0)
    /\ spinnableColors = <<>>
    /\ pc = "rot90"
    /\ candidates = <<>>
    /\ stack = <<>>
    /\ visited = {}
    /\ emitted = <<>>
    /\ last = "none"
    /\ gridObj = NewGrid(gridSettings)
    /\ call = NoCall
    /\ solver = NoSolver

\* array2d.rot90(arr2d): transpose builds a new array and flipRowsInplace
\* works on that one, so arr2d is after the call what it was before.
Rot90Call ==
    /\ pc = "rot90"
    /\ call = NoCall
    /\ \E arr2d \in Arrays :
        call' = [op |-> "rot90", arg |-> arr2d, argAfter |-> arr2d, result |-> rot90(arr2d)]
    /\ UNCHANGED <<parts, requirements, gridSettings, search, gridObj>>

SpecRot == InitRot /\ [][Rot90Call]_vars

\* C30: rot90 of an r x c array is a c x r array whose cell at row j,
\* column r - 1 - i is the argument's cell at row i, column j; the argument
\* is after the call what it was before; four applications give an array
\* equal to the argument.
C30_Rot90Clockwise ==
    call.op = "rot90" =>
        /\ call.result.nrows = call.arg.ncols
        /\ call.result.ncols = call.arg.nrows
        /\ Len(call.result.cells) = Len(call.arg.cells)
        /\ \A i \in 0..(call.arg.nrows - 1), j \in 0..(call.arg.ncols - 1) :
              At(call.result, j, call.arg.nrows - 1 - i) = At(call.arg, i, j)
        /\ call.argAfter = call.arg
        /\ equal(rot90(rot90(rot90(call.result))), call.arg)

\* C30 witness: rot90 of an array with two rows and three columns whose
\* only true cell is the first.
C30_Witness ==
    /\ call.op = "rot90"
    /\ call.arg = Mask(2, 3, <<TRUE, FALSE, FALSE, FALSE, FALSE, FALSE>>)
    /\ call.result = Mask(3, 2, <<FALSE, TRUE, FALSE, FALSE, FALSE, FALSE>>)

\* ------------------------------------------------------------------------
\* AsyncSolver and its worker
\* ------------------------------------------------------------------------
\* The most calls of next() the consumer makes.
MaxNextCalls == 3

\* The most solutions solve yields in the worker.
MaxSolutions == 2

\* What the AsyncSolver and its worker do not touch.
sync == <<parts, requirements, gridSettings, spinnableColors, pc, candidates, stack,
          visited, emitted, last, gridObj, call>>

\* A message between the two threads; value and done matter in the worker's
\* answers to "next" only.
Message(type, value, done) == [type |-> type, value |-> value, done |-> done]

\* The result a call of next() resolves with: a solution or done.
Solution(value) == [settled |-> "resolved", done |-> FALSE, value |-> value]

IteratorDone == [settled |-> "resolved", done |-> TRUE, value |-> 0]

\* The promise of a call of next() is rejected: the body threw "not ready".
Rejected == [settled |-> "rejected", done |-> FALSE, value |-> 0]

\* The calls of next() whose promise is not settled yet.
pending(s) == s.called - Len(s.results)

\* After new AsyncSolver(...): the worker was created and loads its script,
\* the body of the async generator has not started, no listener is attached.
InitAsync ==
    /\ parts = <<>>
    /\ requirements = <<>>
    /\ gridSettings = Settings(0, 0, FALSE, 0)
    /\ spinnableColors = <<>>
    /\ pc = "async"
    /\ candidates = <<>>
    /\ stack = <<>>
    /\ visited = {}
    /\ emitted = <<>>
    /\ last = "none"
    /\ gridObj = NewGrid(gridSettings)
    /\ call = NoCall
    /\ \E n \in 0..MaxSolutions :
        solver = [worker    |-> "loading",
                  solutions |-> [k \in 1..n |-> k],  \* what solve yields in the worker
                  hasIt     |-> FALSE,               \* the worker's it is not null
                  it        |-> <<>>,                \* what the worker's it has left
                  toMain    |-> <<>>,                \* posted by the worker, not delivered
                  toWorker  |-> <<>>,                \* posted to the worker, not delivered
                  gen       |-> "suspendedStart",    \* where the generator body stands
                  listener  |-> FALSE,               \* eh is attached to the worker
                  called    |-> 0,                   \* calls of next() so far
                  results   |-> <<>>]                \* what they resolved with, in order

\* One turn of the generator's loop up to its await: eh is attached and
\* {type: "next"} is posted to the worker.
awaitSolution(s) ==
    [s EXCEPT !.listener = TRUE,
              !.toWorker = Append(@, Message("next", 0, FALSE)),
              !.gen = "awaitNext"]

\* The generator body returns or throws: the call it served settles with
\* `result`, every queued call resolves with done.
complete(s, result) ==
    [s EXCEPT !.gen = "completed",
              !.results = @ \o <<result>> \o [k \in 1..(pending(s) - 1) |-> IteratorDone]]

\* The consumer calls next(). The first call starts the generator body, which
\* runs to its first await and attaches eh for "ready"; a call on the
\* generator suspended at its yield resumes the loop; a call on the running
\* generator is queued; a call on the completed generator resolves with done.
next ==
    /\ pc = "async"
    /\ solver.called < MaxNextCalls
    /\ LET s == [solver EXCEPT !.called = @ + 1]
       IN  solver' =
               CASE solver.gen = "suspendedStart" ->
                        [s EXCEPT !.listener = TRUE, !.gen = "awaitReady"]
                 [] solver.gen = "suspendedYield" -> awaitSolution(s)
                 [] solver.gen = "completed" ->
                        [s EXCEPT !.results = Append(@, IteratorDone)]
                 [] OTHER -> s
    /\ UNCHANGED sync

\* The consumer calls terminate(): the worker is terminated and handles nothing
\* more; what it had posted may or may not reach the main thread.
terminate ==
    /\ pc = "async"
    /\ solver.worker # "terminated"
    /\ \E delivered \in {solver.toMain, <<>>} :
        solver' = [solver EXCEPT !.worker = "terminated", !.toMain = delivered]
    /\ UNCHANGED sync

\* The worker's script runs: it sets onmessage and posts {type: "ready"}.
WorkerStartup ==
    /\ pc = "async"
    /\ solver.worker = "loading"
    /\ solver' = [solver EXCEPT !.worker = "running",
                                !.toMain = Append(@, Message("ready", 0, FALSE))]
    /\ UNCHANGED sync

\* The worker's onmessage handles the oldest message posted to it: "init"
\* makes it the iterator of solve(...), "next" posts {type: "next", ...it.next()}
\* (it!.next() on a null it throws and nothing is posted).
onmessage ==
    /\ pc = "async"
    /\ solver.worker = "running"
    /\ solver.toWorker # <<>>
    /\ LET e == Head(solver.toWorker)
           s == [solver EXCEPT !.toWorker = Tail(@)]
       IN  solver' =
               CASE e.type = "init" ->
                        [s EXCEPT !.hasIt = TRUE, !.it = solver.solutions]
                 [] e.type = "next" /\ ~solver.hasIt -> s
                 [] e.type = "next" /\ solver.hasIt /\ solver.it # <<>> ->
                        [s EXCEPT !.it = Tail(@),
                                  !.toMain = Append(@, Message("next", Head(solver.it), FALSE))]
                 [] OTHER ->
                        [s EXCEPT !.toMain = Append(@, Message("next", 0, TRUE))]
    /\ UNCHANGED sync

\* A message event of the worker fires on the main thread while eh is
\* attached: eh removes itself and resolves the awaited promise, and the
\* generator body goes on to its next await, yield or end.
eh ==
    /\ pc = "async"
    /\ solver.toMain # <<>>
    /\ solver.listener
    /\ LET msg == Head(solver.toMain)
           s == [solver EXCEPT !.toMain = Tail(@), !.listener = FALSE]
       IN  solver' =
               CASE solver.gen = "awaitReady" /\ msg.type # "ready" ->
                        complete(s, Rejected)
                 [] solver.gen = "awaitReady" /\ msg.type = "ready" ->
                        awaitSolution([s EXCEPT !.toWorker =
                                                    Append(@, Message("init", 0, FALSE))])
                 [] solver.gen = "awaitNext" /\ msg.done ->
                        complete(s, IteratorDone)
                 [] OTHER ->
                        LET yielded == [s EXCEPT !.results = Append(@, Solution(msg.value))]
                        IN  IF pending(yielded) > 0
                                THEN awaitSolution(yielded)
                                ELSE [yielded EXCEPT !.gen = "suspendedYield"]
    /\ UNCHANGED sync

\* A message event of the worker fires on the main thread while no listener
\* is attached: nothing hears it and it is gone.
Unheard ==
    /\ pc = "async"
    /\ solver.toMain # <<>>
    /\ ~solver.listener
    /\ solver' = [solver EXCEPT !.toMain = Tail(@)]
    /\ UNCHANGED sync

NextAsync ==
    \/ next
    \/ terminate
    \/ WorkerStartup
    \/ onmessage
    \/ eh
    \/ Unheard

SpecAsync == InitAsync /\ [][NextAsync]_vars

\* The worker's script is run once it is loaded, and the event loops of the
\* worker and of the main thread run every task that is queued; the consumer
\* need not call next() or terminate() ever.
SpecAsyncFair ==
    /\ SpecAsync
    /\ WF_vars(WorkerStartup)
    /\ WF_vars(onmessage)
    /\ WF_vars(eh)
    /\ WF_vars(Unheard)

\* C29: every call of next() eventually resolves with a solution or with
\* done unless the worker is terminated, whichever way the worker's "ready"
\* message and the consumer's first call of next() are interleaved.
C29_NextResolves ==
    \A k \in 1..MaxNextCalls :
        (solver.called >= k)
            ~> (\/ solver.worker = "terminated"
                \/ /\ Len(solver.results) >= k
                   /\ solver.results[k] \in {IteratorDone} \cup
                          {Solution(v) : v \in 1..MaxSolutions})

====
